---- MODULE Spec2Model ----
(***************************************************************************)
(* Model of the paper-audit dashboard: the pattern aggregator              *)
(* (PaperAnalyzer.aggregate_patterns, _calculate_trend,                    *)
(* _detect_trend_direction), the assessment engine (analyze_paper,         *)
(* _parse_analysis_response, analyze_batch) and the source provider        *)
(* (PaperFetcher.fetch_papers).                                            *)
(*                                                                         *)
(* Numbers that pandas computes as floats are kept exact: a rational is a  *)
(* record [num, den] with den > 0, a value that pandas reports as NaN is a *)
(* record with nan = TRUE.                                                 *)
(***************************************************************************)
EXTENDS Integers, Sequences, FiniteSets, TLC

VARIABLES
    \* ---- aggregate_patterns: the DataFrame handed in and what comes out
    keys,          \* keys of the row dicts the table was built from
    results,       \* the rows of the DataFrame `results`
    columns,       \* the column labels of the DataFrame `results`
    columns0,      \* column labels when aggregate_patterns was entered
    results0,      \* rows when aggregate_patterns was entered
    report,        \* pattern_stats returned by the last call (NoReport if none)
    error,         \* exception raised by the last call (NoError if none)
    calls,         \* number of aggregate_patterns calls made on the table
    prev_results,  \* rows when the call before the last was entered
    prev_report,   \* what the call before the last returned (NoReport if none)
    \* ---- _calculate_trend on a free-standing series
    series,        \* the pd.Series passed in
    label,         \* the string returned (NoLabel before the call)
    \* ---- analyze_paper for one paper
    paper_ok,      \* the paper dict has title, abstract, authors and published
    json_compat,   \* response.json() failures are RequestExceptions (requests >= 2.27)
    apc,           \* position: "idle", "loop" (head of the retry loop), "done"
    attempt,       \* loop variable of "for attempt in range(max_retries)"
    retry_delay,   \* seconds the next time.sleep waits
    slept,         \* the waits made so far, in order
    sent,          \* HTTP requests posted so far
    last_status,   \* how the latest request ended
    outcome,       \* what analyze_paper gave its caller: a value or an exception
    \* ---- analyze_batch
    papers,        \* the list of paper dicts passed in
    bpc,           \* position: "idle", "loop" (head of the chunk loop),
                   \*   "collect" (inside as_completed), "done", "raised"
    chunk_start,   \* loop variable i of "for i in range(0, total_papers, batch_size)"
    queued,        \* submitted papers (by index) no worker has taken yet
    running,       \* papers a worker thread is analysing
    finished,      \* completed futures as_completed has not yielded yet: index -> row
    result_rows,   \* the list `results` of row dicts
    processed_papers,
    progress_log,  \* the (processed_papers, total_papers) pairs shown so far
    \* ---- fetch_papers
    count,         \* the requested number of papers
    has_topic,     \* a topic string was given
    fpc,           \* position: "idle", "head" (the while test), "body"
                   \*   (inside the try, waiting for the client), "done", "raised"
    fetched,       \* the list `papers`
    retries_left,  \* the local max_retries, counted down
    \* ---- the analysis run of main.py on the table analyze_batch returned
    ppc,            \* position: "idle", "attached", "error analysis", "trends",
                    \*   "table", "exported", "raised"
    categories_col, \* the column analysis_results['categories'], by row
    table_index,    \* name of the index of analysis_results ("range" at first)
    csv             \* the CSV offered for download (NoCsv before the export)

aggVars   == <<keys, results, columns, columns0, results0, report, error, calls,
               prev_results, prev_report>>
trendVars == <<series, label>>
paperVars == <<paper_ok, json_compat, apc, attempt, retry_delay, slept, sent,
               last_status, outcome>>
batchVars == <<papers, bpc, chunk_start, queued, running, finished, result_rows,
               processed_papers, progress_log>>
fetchVars == <<count, has_topic, fpc, fetched, retries_left>>
pipeVars  == <<ppc, categories_col, table_index, csv>>
vars      == <<aggVars, trendVars, paperVars, batchVars, fetchVars, pipeVars>>

----------------------------------------------------------------------------
(* Bounds of the model *)
MaxRows     == 3      \* rows of a batch in the statistics specification
MaxIssues   == 4      \* largest issue count of a generated row
MaxSeries   == 10     \* longest series handed to _calculate_trend
MaxValue    == 2      \* series values are drawn from 0..MaxValue
MaxCalls    == 2      \* aggregate_patterns calls on one table
MaxMonths   == 8      \* calendar months the rows of a temporal batch fall in
MaxCopies   == 2      \* rows per month in a temporal batch
MaxPapers   == 8      \* papers handed to analyze_batch
MaxCount    == 5      \* largest number of papers asked of fetch_papers

----------------------------------------------------------------------------
(* Small helpers *)
Abs(x) == IF x < 0 THEN -x ELSE x

Min(a, b) == IF a < b THEN a ELSE b

Max(a, b) == IF a > b THEN a ELSE b

Range(s) == {s[i] : i \in 1..Len(s)}

Rat(n, d) == [nan |-> FALSE, num |-> n, den |-> d]

NaN == [nan |-> TRUE, num |-> 0, den |-> 1]

\* dict[k] = v of a Python dict modelled as a function
DictSet(d, k, v) == [x \in (DOMAIN d) \cup {k} |-> IF x = k THEN v ELSE d[x]]

EmptyDict == [x \in {} |-> 0]

\* s[1] + ... + s[n]
RECURSIVE SumTo(_, _)
SumTo(s, n) == IF n = 0 THEN 0 ELSE s[n] + SumTo(s, n - 1)

SumSeq(s) == SumTo(s, Len(s))

\* a[1] * b[1] + ... + a[n] * b[n]
RECURSIVE SumProd(_, _, _)
SumProd(a, b, n) == IF n = 0 THEN 0 ELSE a[n] * b[n] + SumProd(a, b, n - 1)

----------------------------------------------------------------------------
(* PaperAnalyzer.__init__ *)
error_categories ==
    <<"Methodology", "Statistical Analysis", "Data Integrity",
      "Citation Issues", "Technical Accuracy">>

CategorySet == Range(error_categories)

confidence_col(category) == category \o "_confidence"

issues_col(category) == category \o "_issues"

\* keys of the dict process_paper builds for one paper
RowKeys ==
    {"title", "published"}
      \cup {confidence_col(c) : c \in CategorySet}
      \cup {issues_col(c) : c \in CategorySet}

----------------------------------------------------------------------------
(* PaperAnalyzer._calculate_trend: s is a sequence of rationals *)
CalculateTrendStrict(s) ==
    IF Len(s) < 2 THEN "stable"
    ELSE LET l == s[Len(s)]
             f == s[1]
             dnum == l.num * f.den - f.num * l.den
             dden == l.den * f.den * Len(s)
         IN  IF 10 * Abs(dnum) <= dden THEN "stable"
             ELSE IF dnum > 0 THEN "increasing" ELSE "decreasing"

CalculateTrend(s) ==
    IF Len(s) < 2 THEN "stable"
    ELSE LET l == s[Len(s)]
             f == s[1]
             \* slope = (series.iloc[-1] - series.iloc[0]) / len(series)
             dnum == l.num * f.den - f.num * l.den
             dden == l.den * f.den * Len(s)
         IN  IF 10 * Abs(dnum) < dden THEN "stable"
             ELSE IF dnum > 0 THEN "increasing" ELSE "decreasing"

IntSeries(s) == [i \in 1..Len(s) |-> Rat(s[i], 1)]

NoLabel == "none"

----------------------------------------------------------------------------
(* Values of the table *)

\* a publication timestamp; ok = FALSE is a value pd.to_datetime cannot parse
Stamp(y, m, d) == [ok |-> TRUE, year |-> y, month |-> m, day |-> d]

BadStamp == [ok |-> FALSE, year |-> 0, month |-> 0, day |-> 0]

\* .dt.to_period('M'): the ordinal of the calendar month (months since 1970-01)
ToPeriodM(ts) == (ts.year - 1970) * 12 + (ts.month - 1)

\* results[col] for a numeric column: the values in row order
ConfColumn(rows, c) == [i \in 1..Len(rows) |-> rows[i].conf[c]]

IssuesColumn(rows, c) == [i \in 1..Len(rows) |-> rows[i].issues[c]]

----------------------------------------------------------------------------
(* pandas reductions, exact *)

\* Series.mean()
Mean(s) == IF Len(s) = 0 THEN NaN ELSE Rat(SumSeq(s), Len(s))

\* the population variance (ddof = 0): 0 for a single value
StdSquaredPopulation(s) ==
    IF Len(s) = 0 THEN NaN
    ELSE LET n == Len(s)
         IN  Rat(n * SumProd(s, s, n) - SumTo(s, n) * SumTo(s, n), n * n)

\* Series.std() squared (sample variance, ddof = 1); NaN below two values
StdSquared(s) ==
    IF Len(s) < 2 THEN NaN
    ELSE LET n == Len(s)
         IN  Rat(n * SumProd(s, s, n) - SumTo(s, n) * SumTo(s, n), n * (n - 1))

\* k-th smallest value of a non-empty series
KthSmallest(s, k) ==
    CHOOSE v \in Range(s) :
        /\ Cardinality({i \in 1..Len(s) : s[i] < v}) < k
        /\ Cardinality({i \in 1..Len(s) : s[i] <= v}) >= k

\* Series.median()
Median(s) ==
    IF Len(s) = 0 THEN NaN
    ELSE LET n == Len(s)
         IN  IF n % 2 = 1 THEN Rat(2 * KthSmallest(s, (n + 1) \div 2), 2)
             ELSE Rat(KthSmallest(s, n \div 2) + KthSmallest(s, n \div 2 + 1), 2)

\* Series.corr(other), Pearson: the sign and the square of r, NaN when a
\* column has no variance or there are fewer than two rows
Corr(a, b) ==
    LET n   == Len(a)
        cov == n * SumProd(a, b, n) - SumTo(a, n) * SumTo(b, n)
        va  == n * SumProd(a, a, n) - SumTo(a, n) * SumTo(a, n)
        vb  == n * SumProd(b, b, n) - SumTo(b, n) * SumTo(b, n)
    IN  IF n < 2 \/ va = 0 \/ vb = 0
        THEN [nan |-> TRUE, sign |-> 0, sqnum |-> 0, sqden |-> 1]
        ELSE [nan |-> FALSE,
              sign |-> IF cov > 0 THEN 1 ELSE IF cov < 0 THEN -1 ELSE 0,
              sqnum |-> cov * cov, sqden |-> va * vb]

SignificantAboveHalf(r) == ~r.nan /\ 4 * r.sqnum > r.sqden

SignificantOrUndefined(r) == r.nan \/ 100 * r.sqnum > 9 * r.sqden

\* abs(corr) > 0.3 ; a comparison with NaN is False
Significant(r) == ~r.nan /\ 100 * r.sqnum > 9 * r.sqden

\* the largest integer whose square is at most t, searched in lo..hi-1
RECURSIVE IsqrtBetween(_, _, _)
IsqrtBetween(t, lo, hi) ==
    IF hi - lo <= 1 THEN lo
    ELSE LET mid == (lo + hi) \div 2
         IN  IF mid * mid <= t THEN IsqrtBetween(t, mid, hi)
                               ELSE IsqrtBetween(t, lo, mid)

\* round(corr, 2) in hundredths: the integer nearest to 100 * r.
\* (200 r)^2 is taken by long division to stay within machine integers.
RoundCorr(r) ==
    LET q1 == (200 * r.sqnum) \div r.sqden
        r1 == (200 * r.sqnum) % r.sqden
        t  == 200 * q1 + ((200 * r1) \div r.sqden)
    IN  r.sign * ((IsqrtBetween(t, 0, 201) + 1) \div 2)

----------------------------------------------------------------------------
(* PaperAnalyzer.aggregate_patterns *)

NoReport == [kind |-> "none"]

NoError == [type |-> "none", key |-> "", row |-> 0]

\* the column labels the category loop reads, in the order it reads them
RECURSIVE OtherIssueReads(_, _)
OtherIssueReads(category, k) ==
    IF k > Len(error_categories) THEN <<>>
    ELSE (IF error_categories[k] # category
            THEN <<issues_col(error_categories[k])>> ELSE <<>>)
         \o OtherIssueReads(category, k + 1)

RECURSIVE ColumnReads(_)
ColumnReads(k) ==
    IF k > Len(error_categories) THEN <<"published">>
    ELSE <<confidence_col(error_categories[k]), issues_col(error_categories[k])>>
         \o OtherIssueReads(error_categories[k], 1)
         \o ColumnReads(k + 1)

MissingReads(cols) == SelectSeq(ColumnReads(1), LAMBDA c : c \notin cols)

ConfidenceTrendSecondRow(rows, category) ==
    LET col == ConfColumn(rows, category)
    IN  [mean   |-> Mean(col),
         std    |-> StdSquared(col),
         median |-> Median(col),
         trend  |-> CalculateTrend(IntSeries(SubSeq(col, 2, Len(col))))]

ConfidenceTrend(rows, category) ==
    LET col == ConfColumn(rows, category)
    IN  [mean   |-> Mean(col),
         std    |-> StdSquared(col),
         median |-> Median(col),
         trend  |-> CalculateTrend(IntSeries(col))]

SeverityDistributionOpenLow(rows, category) ==
    LET col == IssuesColumn(rows, category)
    IN  [low    |-> Cardinality({i \in 1..Len(rows) : col[i] < 1}),
         medium |-> Cardinality({i \in 1..Len(rows) : col[i] > 1 /\ col[i] <= 3}),
         high   |-> Cardinality({i \in 1..Len(rows) : col[i] > 3})]

SeverityDistribution(rows, category) ==
    LET col == IssuesColumn(rows, category)
    IN  [low    |-> Cardinality({i \in 1..Len(rows) : col[i] <= 1}),
         medium |-> Cardinality({i \in 1..Len(rows) : col[i] > 1 /\ col[i] <= 3}),
         high   |-> Cardinality({i \in 1..Len(rows) : col[i] > 3})]

CorrelationStepLater(rows, category, other_cat, correlations) ==
    LET corr == Corr(IssuesColumn(rows, category), IssuesColumn(rows, other_cat))
        pos(c) == CHOOSE k \in 1..Len(error_categories) : error_categories[k] = c
    IN  IF pos(other_cat) > pos(category) /\ Significant(corr)
          THEN DictSet(correlations, other_cat, RoundCorr(corr))
          ELSE correlations

\* one pass of the inner loop over other_cat
CorrelationStep(rows, category, other_cat, correlations) ==
    LET corr == Corr(IssuesColumn(rows, category), IssuesColumn(rows, other_cat))
    IN  IF other_cat # category /\ Significant(corr)
          THEN DictSet(correlations, other_cat, RoundCorr(corr))
          ELSE correlations

RECURSIVE Correlations(_, _, _, _)
Correlations(rows, category, k, correlations) ==
    IF k > Len(error_categories) THEN correlations
    ELSE Correlations(rows, category, k + 1,
             CorrelationStep(rows, category, error_categories[k], correlations))

RECURSIVE CategoryLoopSkipLast(_, _, _)
CategoryLoopSkipLast(rows, k, stats) ==
    IF k >= Len(error_categories) THEN stats
    ELSE LET category == error_categories[k]
         IN  CategoryLoopSkipLast(rows, k + 1,
               [stats EXCEPT
                  !.confidence_trends =
                      DictSet(@, category, ConfidenceTrend(rows, category)),
                  !.severity_distribution =
                      DictSet(@, category, SeverityDistribution(rows, category)),
                  !.error_correlations =
                      DictSet(@, category,
                              Correlations(rows, category, 1, EmptyDict))])

\* the loop "for category in self.error_categories", from the k-th category on
RECURSIVE CategoryLoop(_, _, _)
CategoryLoop(rows, k, stats) ==
    IF k > Len(error_categories) THEN stats
    ELSE LET category == error_categories[k]
         IN  CategoryLoop(rows, k + 1,
               [stats EXCEPT
                  !.confidence_trends =
                      DictSet(@, category, ConfidenceTrend(rows, category)),
                  !.severity_distribution =
                      DictSet(@, category, SeverityDistribution(rows, category)),
                  !.error_correlations =
                      DictSet(@, category,
                              Correlations(rows, category, 1, EmptyDict))])

----------------------------------------------------------------------------
(* the temporal part of aggregate_patterns *)

\* results['year_month']
YearMonth(rows) == [i \in 1..Len(rows) |-> ToPeriodM(rows[i].published)]

RECURSIVE SortSet(_)
SortSet(S) ==
    IF S = {} THEN <<>>
    ELSE LET m == CHOOSE x \in S : \A y \in S : x <= y
         IN  <<m>> \o SortSet(S \ {m})

\* DataFrame.tail(n)
TailRows(s, n) == IF Len(s) <= n THEN s ELSE SubSeq(s, Len(s) - n + 1, Len(s))

HeadRows(s, n) == IF Len(s) <= n THEN s ELSE SubSeq(s, 1, n)

\* the distinct values of s[1..k] in order of first appearance
RECURSIVE FirstSeen(_, _)
FirstSeen(s, k) ==
    IF k = 0 THEN <<>>
    ELSE LET p == FirstSeen(s, k - 1)
         IN  IF s[k] \in Range(p) THEN p ELSE Append(p, s[k])

TemporalIndexUnsorted(rows) == TailRows(FirstSeen(YearMonth(rows), Len(rows)), 6)

\* groupby('year_month'): the group keys in sorted order, then .tail(6)
TemporalIndexOldest(rows) == HeadRows(SortSet(Range(YearMonth(rows))), 6)

TemporalIndex(rows) == TailRows(SortSet(Range(YearMonth(rows))), 6)

\* the rows of one group, in row order
GroupRows(rows, period) ==
    SelectSeq(rows, LAMBDA r : ToPeriodM(r.published) = period)

\* temporal_data: one line per retained period
TemporalData(rows) ==
    LET index == TemporalIndex(rows)
    IN  [i \in 1..Len(index) |->
           [period |-> index[i],
            mean |-> [c \in CategorySet |->
                        Mean(IssuesColumn(GroupRows(rows, index[i]), c))],
            std  |-> [c \in CategorySet |->
                        StdSquared(IssuesColumn(GroupRows(rows, index[i]), c))]]]

\* temporal_data.to_dict(): per (column, statistic) the period -> value
\* dict, kept as the sequence of its items in insertion order
MonthlyAverages(temporal_data) ==
    [k \in {<<issues_col(c), st>> : c \in CategorySet, st \in {"mean", "std"}} |->
        [i \in 1..Len(temporal_data) |->
            LET c == CHOOSE c \in CategorySet : issues_col(c) = k[1]
            IN  <<temporal_data[i].period,
                  IF k[2] = "mean" THEN temporal_data[i].mean[c]
                                   ELSE temporal_data[i].std[c]>>]]

\* PaperAnalyzer._detect_trend_direction
RECURSIVE DetectTrendDirection(_, _, _)
DetectTrendDirection(temporal_data, k, trends) ==
    IF k > Len(error_categories) THEN trends
    ELSE LET category == error_categories[k]
             means == [i \in 1..Len(temporal_data) |-> temporal_data[i].mean[category]]
         IN  DetectTrendDirection(temporal_data, k + 1,
                 DictSet(trends, category, CalculateTrend(means)))

\* pattern_stats as returned for a table that has every column
PatternStats(rows) ==
    LET stats == CategoryLoop(rows, 1,
                    [kind |-> "report",
                     common_issues |-> EmptyDict,
                     severity_distribution |-> EmptyDict,
                     confidence_trends |-> EmptyDict,
                     error_correlations |-> EmptyDict,
                     temporal_patterns |-> EmptyDict])
        temporal_data == TemporalData(rows)
    IN  [stats EXCEPT !.temporal_patterns =
            [monthly_averages |-> MonthlyAverages(temporal_data),
             trend_direction  |-> DetectTrendDirection(temporal_data, 1, EmptyDict)]]

BadRowsCoerced(rows) == {}

\* the rows whose published value pd.to_datetime rejects
BadRows(rows) == {i \in 1..Len(rows) : ~rows[i].published.ok}

\* one call of aggregate_patterns on the table
Aggregate ==
    /\ calls < MaxCalls
    /\ calls' = calls + 1
    /\ columns0' = columns
    /\ results0' = results
    /\ prev_results' = results0
    /\ prev_report' = report
    /\ UNCHANGED <<keys, results>>
    /\ IF MissingReads(columns) # <<>>
         THEN \* results[col] raises KeyError(col)
              /\ error' = [type |-> "KeyError", key |-> MissingReads(columns)[1], row |-> 0]
              /\ report' = NoReport
              /\ UNCHANGED columns
         ELSE IF BadRows(results) # {}
         THEN \* pd.to_datetime raises before the column is assigned
              /\ error' = [type |-> "ValueError", key |-> "published",
                           row |-> CHOOSE i \in BadRows(results) :
                                      \A j \in BadRows(results) : i <= j]
              /\ report' = NoReport
              /\ UNCHANGED columns
         ELSE /\ error' = NoError
              /\ report' = PatternStats(results)
              /\ columns' = columns \cup {"year_month"}
    /\ UNCHANGED <<trendVars, paperVars, batchVars, fetchVars, pipeVars>>

----------------------------------------------------------------------------
(* The parts of the state a specification does not exercise stay as        *)
(* constructed.                                                            *)
AggIdle ==
    /\ keys = {}
    /\ results = <<>>
    /\ columns = {}
    /\ columns0 = {}
    /\ results0 = <<>>
    /\ report = NoReport
    /\ error = NoError
    /\ calls = 0
    /\ prev_results = <<>>
    /\ prev_report = NoReport

TrendIdle ==
    /\ series = <<>>
    /\ label = NoLabel

NoOutcome == [exc |-> "none", value |-> EmptyDict]

PaperIdle ==
    /\ paper_ok = TRUE
    /\ json_compat = TRUE
    /\ apc = "idle"
    /\ attempt = 0
    /\ retry_delay = 1
    /\ slept = <<>>
    /\ sent = 0
    /\ last_status = "none"
    /\ outcome = NoOutcome

BatchIdle ==
    /\ papers = <<>>
    /\ bpc = "idle"
    /\ chunk_start = 0
    /\ queued = {}
    /\ running = {}
    /\ finished = EmptyDict
    /\ result_rows = <<>>
    /\ processed_papers = 0
    /\ progress_log = <<>>

FetchIdle ==
    /\ count = 0
    /\ has_topic = FALSE
    /\ fpc = "idle"
    /\ fetched = <<>>
    /\ retries_left = 0

NoCsv == [written |-> FALSE, header |-> {}, titles |-> <<>>]

PipeIdle ==
    /\ ppc = "idle"
    /\ categories_col = <<>>
    /\ table_index = "range"
    /\ csv = NoCsv

----------------------------------------------------------------------------
(* Specification SpecAgg: aggregate_patterns on tables of up to MaxRows    *)
(* rows built from row dicts that all have the same keys (every key of     *)
(* process_paper, or all but one).                                         *)

\* a row dict: issue counts x, x+1, ... (mod MaxIssues + 1) over the
\* categories, confidences 60 + 10 * issues, the given timestamp
StatsRow(title, x, published) ==
    [title |-> title,
     published |-> published,
     conf   |-> [c \in CategorySet |->
                   LET k == CHOOSE k \in 1..Len(error_categories) : error_categories[k] = c
                   IN  60 + 10 * ((x + k - 1) % (MaxIssues + 1))],
     issues |-> [c \in CategorySet |->
                   LET k == CHOOSE k \in 1..Len(error_categories) : error_categories[k] = c
                   IN  (x + k - 1) % (MaxIssues + 1)]]

KeySets == {RowKeys} \cup {RowKeys \ {k} : k \in RowKeys}

InitAgg ==
    /\ keys \in KeySets
    /\ results = <<>>
    /\ columns = {}
    /\ columns0 = {}
    /\ results0 = <<>>
    /\ report = NoReport
    /\ error = NoError
    /\ calls = 0
    /\ prev_results = <<>>
    /\ prev_report = NoReport
    /\ TrendIdle
    /\ PaperIdle
    /\ BatchIdle
    /\ FetchIdle
    /\ PipeIdle

\* pd.DataFrame(rows + [row]): the caller adds one row dict to the table
AddRow(row) ==
    /\ calls = 0
    /\ results' = Append(results, row)
    /\ columns' = columns \cup keys
    /\ UNCHANGED <<keys, columns0, results0, report, error, calls,
                   prev_results, prev_report, trendVars, paperVars, batchVars, fetchVars, pipeVars>>

AddStatsRow(x, published) ==
    /\ Len(results) < MaxRows
    /\ AddRow(StatsRow(Len(results) + 1, x, published))

NextAgg ==
    \/ \E x \in 0..MaxIssues, p \in {Stamp(2024, 1, 15), BadStamp} : AddStatsRow(x, p)
    \/ Aggregate

SpecAgg == InitAgg /\ [][NextAgg]_vars

(***************************************************************************)
(* C1: for a non-empty batch with every column, aggregate_patterns returns *)
(* exactly one confidence_trends entry and exactly one                    *)
(* severity_distribution entry per category of error_categories, and the   *)
(* low + medium + high counts of each entry sum to the number of rows.     *)
(***************************************************************************)
Unparseable(rows) == {i \in 1..Len(rows) : ~rows[i].published.ok}

WellFormed(rows, cols) ==
    /\ rows # <<>>
    /\ RowKeys \subseteq cols
    /\ Unparseable(rows) = {}

C1_OneEntryPerCategory ==
    (calls > 0 /\ WellFormed(results0, columns0)) =>
        /\ report.kind = "report"
        /\ DOMAIN report.confidence_trends = CategorySet
        /\ DOMAIN report.severity_distribution = CategorySet
        /\ \A c \in CategorySet :
              LET d == report.severity_distribution[c]
              IN  d.low + d.medium + d.high = Len(results0)

C1_Witness ==
    /\ calls > 0
    /\ WellFormed(results0, columns0)
    /\ Len(results0) = MaxRows
    /\ report.kind = "report"
    /\ \E c \in CategorySet :
          /\ report.severity_distribution[c].low > 0
          /\ report.severity_distribution[c].medium > 0
          /\ report.severity_distribution[c].high > 0

(***************************************************************************)
(* C2: every row is counted in exactly one severity bucket of every        *)
(* category: low when issues <= 1, medium when 1 < issues <= 3, high when  *)
(* issues > 3 (so 1 is low, 2 and 3 are medium, 4 is high).                *)
(***************************************************************************)
RowsWith(rows, c, lo, hi) ==
    Cardinality({i \in 1..Len(rows) : lo <= rows[i].issues[c] /\ rows[i].issues[c] <= hi})

C2_SeverityBuckets ==
    (calls > 0 /\ report.kind = "report") =>
        \A c \in CategorySet :
            /\ report.severity_distribution[c].low = RowsWith(results0, c, 0, 1)
            /\ report.severity_distribution[c].medium = RowsWith(results0, c, 2, 3)
            /\ report.severity_distribution[c].high = RowsWith(results0, c, 4, MaxIssues + 1)

C2_Witness ==
    /\ calls > 0
    /\ report.kind = "report"
    /\ \E c \in CategorySet :
          /\ {results0[i].issues[c] : i \in 1..Len(results0)} = {1, 3, 4}
          /\ report.severity_distribution[c] = [low |-> 1, medium |-> 1, high |-> 1]

(***************************************************************************)
(* C4 as stated: a call with an empty batch, with a batch that lacks the   *)
(* confidence or the issues column of some category, or with an            *)
(* unparseable published value fails with a MalformedBatchError and        *)
(* produces no report.                                                     *)
(***************************************************************************)
LacksCategoryColumn(cols) ==
    \E c \in CategorySet : confidence_col(c) \notin cols \/ issues_col(c) \notin cols

Malformed(rows, cols) ==
    \/ rows = <<>>
    \/ LacksCategoryColumn(cols)
    \/ ("published" \in cols /\ Unparseable(rows) # {})

C4_WitnessKeyError ==
    /\ calls > 0
    /\ results0 # <<>>
    /\ error = [type |-> "KeyError", key |-> issues_col("Data Integrity"), row |-> 0]

(***************************************************************************)
(* C5: aggregate_patterns leaves the batch it is given as it was: after a  *)
(* call the table has the same rows and the same set of columns as when    *)
(* the call was entered.                                                   *)
(***************************************************************************)
C5_InputUnchanged ==
    calls > 0 => (results = results0 /\ columns = columns0)

----------------------------------------------------------------------------
(* Specification SpecTrend: _calculate_trend applied to every series of    *)
(* integers in 0..MaxValue of length 0..MaxSeries.                         *)
InitTrend ==
    /\ AggIdle
    /\ TrendIdle
    /\ PaperIdle
    /\ BatchIdle
    /\ FetchIdle
    /\ PipeIdle

\* the caller extends the series by one value before the call
TrendAppend(v) ==
    /\ label = NoLabel
    /\ Len(series) < MaxSeries
    /\ series' = Append(series, v)
    /\ UNCHANGED <<label, aggVars, paperVars, batchVars, fetchVars, pipeVars>>

TrendCall ==
    /\ label = NoLabel
    /\ label' = CalculateTrend(IntSeries(series))
    /\ UNCHANGED <<series, aggVars, paperVars, batchVars, fetchVars, pipeVars>>

NextTrend ==
    \/ \E v \in 0..MaxValue : TrendAppend(v)
    \/ TrendCall

SpecTrend == InitTrend /\ [][NextTrend]_vars

(***************************************************************************)
(* C3: for a series s of length n, _calculate_trend returns "stable" when  *)
(* n < 2; otherwise, with slope = (s[last] - s[first]) / n, "stable" when  *)
(* |slope| < 0.1, "increasing" when slope >= 0.1 and "decreasing" when     *)
(* slope <= -0.1: a slope of exactly 0.1 in magnitude is not stable.       *)
(* (10 * slope = 10 * (last - first) / n, compared with 1.)                *)
(***************************************************************************)
C3_TrendLabel ==
    label # NoLabel =>
        LET n == Len(series)
        IN  IF n < 2 THEN label = "stable"
            ELSE LET d == series[n] - series[1]
                 IN  /\ (10 * d < n /\ 10 * d > -n) => label = "stable"
                     /\ 10 * d >= n => label = "increasing"
                     /\ 10 * d <= -n => label = "decreasing"

C3_Witness ==
    /\ label = "increasing"
    /\ Len(series) = 10
    /\ series[10] - series[1] = 1

C3_WitnessDecreasing ==
    /\ label = "decreasing"
    /\ Len(series) = 10
    /\ series[10] - series[1] = -1

----------------------------------------------------------------------------------------------------------------------------------------
(* Specification SpecTemporal: aggregate_patterns on complete tables whose *)
(* rows fall in any non-empty subset of MaxMonths consecutive calendar     *)
(* months (2023-09 on, so the months cross a year boundary), 1..MaxCopies  *)
(* rows per month, arriving oldest first, newest first or interleaved.     *)

\* the k-th month of the generated range, on the given day
MonthStamp(k, day) == Stamp(2023 + ((k + 7) \div 12), ((k + 7) % 12) + 1, day)

Reverse(s) == [i \in 1..Len(s) |-> s[Len(s) + 1 - i]]

\* the odd positions of s followed by the even ones
Riffle(s) ==
    LET odd == (Len(s) + 1) \div 2
    IN  [i \in 1..Len(s) |-> IF i <= odd THEN s[2 * i - 1] ELSE s[2 * (i - odd)]]

Arrange(s, order) ==
    IF order = "oldest first" THEN s
    ELSE IF order = "newest first" THEN Reverse(s)
    ELSE Riffle(s)

RECURSIVE Repeat(_, _)
Repeat(s, n) == IF n = 0 THEN <<>> ELSE s \o Repeat(s, n - 1)

\* the table of a batch with `copies` papers in each month of S
TemporalTable(S, order, copies) ==
    LET months == Repeat(Arrange(SortSet(S), order), copies)
    IN  [i \in 1..Len(months) |->
           StatsRow(i, (months[i] + i) % (MaxIssues + 1),
                    MonthStamp(months[i], 1 + ((9 * i) % 28)))]

InitTemporal ==
    /\ keys = RowKeys
    /\ columns = RowKeys
    /\ \E S \in (SUBSET (1..MaxMonths)) \ {{}},
          order \in {"oldest first", "newest first", "interleaved"},
          copies \in 1..MaxCopies :
          results = TemporalTable(S, order, copies)
    /\ columns0 = {}
    /\ results0 = <<>>
    /\ report = NoReport
    /\ error = NoError
    /\ calls = 0
    /\ prev_results = <<>>
    /\ prev_report = NoReport
    /\ TrendIdle
    /\ PaperIdle
    /\ BatchIdle
    /\ FetchIdle
    /\ PipeIdle

NextTemporal == Aggregate

SpecTemporal == InitTemporal /\ [][NextTemporal]_vars

(***************************************************************************)
(* C10: the temporal summary holds exactly the min(6, m) most recent of    *)
(* the m distinct calendar months of the batch's published values, in      *)
(* chronological order; no month absent from the batch is added.           *)
(***************************************************************************)
MonthsOf(rows) ==
    {(rows[i].published.year - 1970) * 12 + rows[i].published.month - 1 :
        i \in 1..Len(rows)}

SummaryPeriods(items) == [i \in 1..Len(items) |-> items[i][1]]

C10_LatestSixMonths ==
    (calls > 0 /\ report.kind = "report") =>
        \A k \in DOMAIN report.temporal_patterns.monthly_averages :
            LET P == SummaryPeriods(report.temporal_patterns.monthly_averages[k])
                M == MonthsOf(results0)
            IN  /\ Len(P) = Min(6, Cardinality(M))
                /\ \A i \in 1..Len(P) : P[i] \in M
                /\ \A i \in 1..(Len(P) - 1) : P[i] < P[i + 1]
                /\ \A q \in M \ Range(P) : \A i \in 1..Len(P) : q < P[i]

C10_Witness ==
    /\ calls > 0
    /\ report.kind = "report"
    /\ Len(results0) = 8
    /\ Cardinality(MonthsOf(results0)) = 8
    /\ results0[1].published.year = 2024
    /\ results0[8].published.year = 2023
    /\ \A k \in DOMAIN report.temporal_patterns.monthly_averages :
          Len(report.temporal_patterns.monthly_averages[k]) = 6

C10_WitnessFewer ==
    /\ calls > 0
    /\ report.kind = "report"
    /\ Len(results0) = 6
    /\ MonthsOf(results0) = {ToPeriodM(MonthStamp(k, 1)) : k \in {2, 5, 8}}
    /\ \A k \in DOMAIN report.temporal_patterns.monthly_averages :
          Len(report.temporal_patterns.monthly_averages[k]) = 3

----------------------------------------------------------------------------
(* PaperAnalyzer.analyze_paper and _parse_analysis_response                *)

\* a call's result: exc = "none" and a value, or the exception it raised
Returns(v) == [exc |-> "none", value |-> v]

Raises(e) == [exc |-> e, value |-> EmptyDict]

\* category.lower().replace(' ', '_')
category_key(category) ==
    CASE category = "Methodology"          -> "methodology"
      [] category = "Statistical Analysis" -> "statistical_analysis"
      [] category = "Data Integrity"       -> "data_integrity"
      [] category = "Citation Issues"      -> "citation_issues"
      [] category = "Technical Accuracy"   -> "technical_accuracy"

\* a JSON value found under 'confidence' or 'issues'
Num(n) == [kind |-> "num", n |-> n]

NanValue == [kind |-> "nan", n |-> 0]

Missing == [kind |-> "missing", n |-> 0]

WrongType == [kind |-> "wrongtype", n |-> 0]

\* max(0, v): NaN never compares greater, so max keeps the 0
MaxZero(v) == IF v.kind = "nan" THEN 0 ELSE Max(0, v.n)

\* min(100, max(0, v))
ClampConfidence(v) == Min(100, MaxZero(v))

\* random.randint(60, 100) and random.randint(0, 3): the ends of each range
FallbackConfidence == {60, 100}

FallbackIssues == {0, 3}

\* _generate_fallback_analysis: the mappings it can return
GenerateFallbackAnalysis ==
    {[c \in CategorySet |-> [confidence |-> a, issues |-> b]] :
        a \in FallbackConfidence, b \in FallbackIssues}

\* the dict literal of lines 161-164 for one category of the parsed object
NormalizeEntry(entry) ==
    IF ~entry.isdict THEN Raises("TypeError")
    ELSE IF entry.confidence.kind = "missing" THEN Raises("KeyError")
    ELSE IF entry.confidence.kind = "wrongtype" THEN Raises("TypeError")
    ELSE IF entry.issues.kind = "missing" THEN Raises("KeyError")
    ELSE IF entry.issues.kind = "wrongtype" THEN Raises("TypeError")
    ELSE Returns([confidence |-> ClampConfidence(entry.confidence),
                  issues |-> MaxZero(entry.issues)])

\* the loop of lines 158-166 from the k-th category on; fb supplies the
\* entries of the categories the object lacks
RECURSIVE NormalizeLoop(_, _, _, _)
NormalizeLoop(analysis, k, normalized, fb) ==
    IF k > Len(error_categories) THEN Returns(normalized)
    ELSE LET category == error_categories[k]
         IN  IF analysis.kind = "number" THEN Raises("TypeError")
             ELSE IF analysis.kind = "dict" /\ category_key(category) \in DOMAIN analysis.entries
             THEN LET e == NormalizeEntry(analysis.entries[category_key(category)])
                  IN  IF e.exc # "none" THEN e
                      ELSE NormalizeLoop(analysis, k + 1,
                                         DictSet(normalized, category, e.value), fb)
             ELSE NormalizeLoop(analysis, k + 1,
                                DictSet(normalized, category, fb[category]), fb)

\* except (json.JSONDecodeError, KeyError) of _parse_analysis_response
ParseHandler(r, fb) ==
    IF r.exc \in {"JSONDecodeError", "KeyError"} THEN Returns(fb) ELSE r

\* _parse_analysis_response(content); fb1 and fb2 are the fallbacks drawn
\* inside the loop and in the handler
ParseAnalysisResponse(content, fb1, fb2) ==
    ParseHandler(
        IF content.kind = "null" THEN Raises("TypeError")
        ELSE IF content.kind = "text" THEN Raises("JSONDecodeError")
        ELSE NormalizeLoop(content.analysis, 1, EmptyDict, fb1),
        fb2)

\* lines 93-96: what is done with the decoded response body
HandleResponseData(body, fb1, fb2) ==
    IF body.kind = "not_a_dict" THEN Raises("TypeError")
    ELSE IF body.kind = "no_choices" THEN Raises("ValueError")
    ELSE IF body.kind = "bad_message" THEN Raises("KeyError")
    ELSE ParseAnalysisResponse(body.content, fb1, fb2)

OuterHandlerRequestsOnly(r, fb) ==
    IF r.exc \in {"RequestException", "Exception"} THEN Returns(fb) ELSE r

\* except Exception of analyze_paper: every exception becomes the fallback
OuterHandler(r, fb) ==
    IF r.exc # "none" THEN Returns(fb) ELSE r

max_retries == 5

\* a delay that grows by one second per failure
NextDelayLinear(d) == Min(d + 1, 32)

\* min(retry_delay * 2, 32)
NextDelay(d) == Min(d * 2, 32)

----------------------------------------------------------------------------
(* The HTTP exchange: response bodies the API can answer with *)

Entry(c, i) == [isdict |-> TRUE, confidence |-> c, issues |-> i]

NotADictEntry == [isdict |-> FALSE, confidence |-> Missing, issues |-> Missing]

Entries ==
    {Entry(c, i) : c \in {Num(-5), Num(50), Num(150), NanValue, Missing, WrongType},
                   i \in {Num(-2), Num(2), NanValue, Missing, WrongType}}
      \cup {NotADictEntry}

\* the entries given to the categories after the first one
LaterEntries ==
    {Entry(Num(150), Num(-2)), Entry(Num(50), Num(2)),
     Entry(WrongType, Num(2)), Entry(Num(50), Missing)}

AllKeys == {category_key(c) : c \in CategorySet}

KeyFamilies == {AllKeys, {}} \cup {AllKeys \ {k} : k \in AllKeys}

\* the first category, in list order, whose key is in K
FirstKey(K) ==
    category_key(error_categories[
        CHOOSE k \in 1..Len(error_categories) :
            /\ category_key(error_categories[k]) \in K
            /\ \A j \in 1..(k - 1) : category_key(error_categories[j]) \notin K])

JsonDict(K, e1, e2) ==
    [kind |-> "dict",
     entries |-> [k \in K |-> IF k = FirstKey(K) THEN e1 ELSE e2]]

NonDict(kind) == [kind |-> kind, entries |-> EmptyDict]

Analyses ==
    {NonDict("list"), NonDict("number")}
      \cup {JsonDict(K, e1, e2) : K \in KeyFamilies, e1 \in Entries, e2 \in LaterEntries}

Content(kind, analysis) == [kind |-> kind, analysis |-> analysis]

Body(kind, content) == [kind |-> kind, content |-> content]

Bodies ==
    {Body(k, Content("null", NonDict("list"))) :
        k \in {"not_json", "not_a_dict", "no_choices", "bad_message"}}
      \cup {Body("content", Content(k, NonDict("list"))) : k \in {"null", "text"}}
      \cup {Body("content", Content("json", a)) : a \in Analyses}

----------------------------------------------------------------------------
(* Specification SpecPaper: one call of analyze_paper, every outcome of    *)
(* every request.                                                          *)

InitPaper ==
    /\ AggIdle
    /\ TrendIdle
    /\ BatchIdle
    /\ FetchIdle
    /\ PipeIdle
    /\ paper_ok \in BOOLEAN
    /\ json_compat \in BOOLEAN
    /\ apc = "idle"
    /\ attempt = 0
    /\ retry_delay = 1
    /\ slept = <<>>
    /\ sent = 0
    /\ last_status = "none"
    /\ outcome = NoOutcome

\* return to the caller with result r of the try block, through the handler
Finish(r, fb) ==
    /\ apc' = "done"
    /\ outcome' = OuterHandler(r, fb)

\* lines 22-56: the prompt is built (KeyError if the paper lacks a field)
AnalyzeStart ==
    /\ apc = "idle"
    /\ IF paper_ok
         THEN /\ apc' = "loop"
              /\ UNCHANGED outcome
         ELSE \E fb \in GenerateFallbackAnalysis : Finish(Raises("KeyError"), fb)
    /\ UNCHANGED <<paper_ok, json_compat, attempt, retry_delay, slept, sent,
                   last_status, aggVars, trendVars, batchVars, fetchVars, pipeVars>>

\* the sleep and the request that open every pass of the retry loop
SleepAndPost ==
    /\ apc = "loop"
    /\ attempt < max_retries
    /\ slept' = IF attempt > 0 THEN Append(slept, retry_delay) ELSE slept
    /\ sent' = sent + 1

\* the pass ends without a response: next pass, or the loop is over and
\* line 90 raises
NextPass(status, fb) ==
    /\ last_status' = status
    /\ attempt' = attempt + 1
    /\ retry_delay' = NextDelay(retry_delay)
    /\ IF attempt + 1 < max_retries
         THEN UNCHANGED <<apc, outcome>>
         ELSE Finish(Raises("Exception"), fb)

\* the except RequestException clause
RequestFailed(status, fb) ==
    IF attempt = max_retries - 1
      THEN /\ last_status' = status
           /\ Finish(Raises("RequestException"), fb)
           /\ UNCHANGED <<attempt, retry_delay>>
      ELSE NextPass(status, fb)

\* one pass in which the API answers 429
Attempt429 ==
    /\ SleepAndPost
    /\ \E fb \in GenerateFallbackAnalysis : NextPass("429", fb)
    /\ UNCHANGED <<paper_ok, json_compat, aggVars, trendVars, batchVars, fetchVars, pipeVars>>

\* one pass in which the request times out
AttemptTimeout ==
    /\ SleepAndPost
    /\ \E fb \in GenerateFallbackAnalysis : NextPass("timeout", fb)
    /\ UNCHANGED <<paper_ok, json_compat, aggVars, trendVars, batchVars, fetchVars, pipeVars>>

\* one pass in which the request fails otherwise (connection error, or an
\* error status that raise_for_status turns into HTTPError)
AttemptError ==
    /\ SleepAndPost
    /\ \E fb \in GenerateFallbackAnalysis : RequestFailed("error", fb)
    /\ UNCHANGED <<paper_ok, json_compat, aggVars, trendVars, batchVars, fetchVars, pipeVars>>

\* one pass in which the API answers with a success status and the body.
\* fb1 is the fallback drawn inside the normalising loop; fb is the one drawn
\* by whichever of the two handlers runs (at most one does in a call).
AttemptOk(body) ==
    /\ SleepAndPost
    /\ \E fb \in GenerateFallbackAnalysis, fb1 \in GenerateFallbackAnalysis :
          IF body.kind = "not_json"
            THEN IF json_compat
                   THEN RequestFailed("not_json", fb)
                   ELSE /\ last_status' = "not_json"
                        /\ Finish(Raises("ValueError"), fb)
                        /\ UNCHANGED <<attempt, retry_delay>>
            ELSE /\ last_status' = "ok"
                 /\ Finish(HandleResponseData(body, fb1, fb), fb)
                 /\ UNCHANGED <<attempt, retry_delay>>
    /\ UNCHANGED <<paper_ok, json_compat, aggVars, trendVars, batchVars, fetchVars, pipeVars>>

NextPaper ==
    \/ AnalyzeStart
    \/ Attempt429
    \/ AttemptTimeout
    \/ AttemptError
    \/ \E body \in Bodies : AttemptOk(body)

SpecPaper == InitPaper /\ [][NextPaper]_vars

(***************************************************************************)
(* C6: analyze_paper never raises to its caller and, whatever the paper    *)
(* and the outcome of the HTTP exchange, returns a mapping with an entry   *)
(* for every category of error_categories, each with confidence in 0..100  *)
(* and issues >= 0.                                                        *)
(***************************************************************************)
C6_CompleteMapping ==
    apc = "done" =>
        /\ outcome.exc = "none"
        /\ DOMAIN outcome.value = CategorySet
        /\ \A c \in CategorySet :
              /\ outcome.value[c].confidence \in 0..100
              /\ outcome.value[c].issues >= 0

\* a parsed answer in which one category is missing and values are clamped
C6_Witness ==
    /\ apc = "done"
    /\ last_status = "ok"
    /\ sent = 3
    /\ outcome.exc = "none"
    /\ outcome.value["Methodology"] = [confidence |-> 60, issues |-> 3]
    /\ outcome.value["Statistical Analysis"] = [confidence |-> 0, issues |-> 0]
    /\ outcome.value["Data Integrity"] = [confidence |-> 100, issues |-> 0]

\* five rate-limited requests in a row
C6_WitnessExhausted ==
    /\ apc = "done"
    /\ last_status = "429"
    /\ sent = max_retries
    /\ outcome.exc = "none"

----------------------------------------------------------------------------
(* PaperAnalyzer.analyze_batch *)

\* the i-th paper record the source provider returned
PaperRecord(i) ==
    [title |-> i,
     published |-> MonthStamp(((i - 1) % MaxMonths) + 1, i),
     categories |-> <<"cs", i>>]

\* math.ceil(a / b) for b > 0
CeilDiv(a, b) == (a + b - 1) \div b

\* lines 199-200
BatchSize(total_papers) == Min(10, CeilDiv(total_papers, 4))

\* a pool with one thread per paper
MaxWorkersUncapped(total_papers) == total_papers

MaxWorkers(total_papers) == Min(4, total_papers)

ChunkWithoutFirst(i, batch_size, total_papers) ==
    {k \in 1..total_papers : i + 1 < k /\ k <= i + batch_size}

\* papers[i:i + batch_size], as 1-based positions in the list
Chunk(i, batch_size, total_papers) ==
    {k \in 1..total_papers : i < k /\ k <= i + batch_size}

\* the dict process_paper builds from a paper and an analysis mapping
RowDict(paper, analysis) ==
    [title |-> paper.title,
     published |-> paper.published,
     conf   |-> [c \in DOMAIN analysis |-> analysis[c].confidence],
     issues |-> [c \in DOMAIN analysis |-> analysis[c].issues]]

\* the keys of such a dict
KeysOf(row) ==
    {"title", "published"}
      \cup {confidence_col(c) : c \in DOMAIN row.conf}
      \cup {issues_col(c) : c \in DOMAIN row.issues}

\* process_paper: r is what analyze_paper did, fb the fallback of the handler
ProcessPaper(paper, r, fb) ==
    IF r.exc = "none" THEN RowDict(paper, r.value) ELSE RowDict(paper, fb)

\* what analyze_paper hands back in the batch specification: a call whose
\* requests all failed, and a call answered with an object that lacks one
\* category and has values out of range
BatchFallback == [c \in CategorySet |-> [confidence |-> 60, issues |-> 3]]

AnalyzePaperOutcomes ==
    {OuterHandler(Raises("Exception"), BatchFallback),
     OuterHandler(
         HandleResponseData(
             Body("content",
                  Content("json",
                          JsonDict(AllKeys \ {"methodology"},
                                   Entry(Num(150), Num(-2)), Entry(Num(50), Num(2))))),
             BatchFallback, BatchFallback),
         BatchFallback)}

----------------------------------------------------------------------------
(* Specification SpecBatch: analyze_batch on 0..MaxPapers papers, every    *)
(* interleaving of the worker threads and of the collecting loop.          *)

InitBatch ==
    /\ AggIdle
    /\ TrendIdle
    /\ PaperIdle
    /\ FetchIdle
    /\ PipeIdle
    /\ \E n \in 0..MaxPapers : papers = [i \in 1..n |-> PaperRecord(i)]
    /\ bpc = "idle"
    /\ chunk_start = 0
    /\ queued = {}
    /\ running = {}
    /\ finished = EmptyDict
    /\ result_rows = <<>>
    /\ processed_papers = 0
    /\ progress_log = <<>>

\* lines 190-222: range(0, total_papers, batch_size) raises ValueError when
\* the step is zero
BatchStart ==
    /\ bpc = "idle"
    /\ bpc' = IF BatchSize(Len(papers)) = 0 THEN "raised" ELSE "loop"
    /\ UNCHANGED <<papers, chunk_start, queued, running, finished, result_rows,
                   processed_papers, progress_log, aggVars, trendVars, paperVars, fetchVars, pipeVars>>

\* lines 222-226: the next chunk is submitted to a new executor
SubmitChunk ==
    /\ bpc = "loop"
    /\ chunk_start < Len(papers)
    /\ queued' = Chunk(chunk_start, BatchSize(Len(papers)), Len(papers))
    /\ bpc' = "collect"
    /\ UNCHANGED <<papers, chunk_start, running, finished, result_rows,
                   processed_papers, progress_log, aggVars, trendVars, paperVars, fetchVars, pipeVars>>

\* a free worker thread takes the oldest queued paper
WorkerStart ==
    /\ bpc = "collect"
    /\ queued # {}
    /\ Cardinality(running) < MaxWorkers(Len(papers))
    /\ LET p == CHOOSE p \in queued : \A q \in queued : p <= q
       IN  /\ queued' = queued \ {p}
           /\ running' = running \cup {p}
    /\ UNCHANGED <<papers, bpc, chunk_start, finished, result_rows,
                   processed_papers, progress_log, aggVars, trendVars, paperVars, fetchVars, pipeVars>>

\* a worker thread returns from process_paper: the future completes
WorkerFinish(p, r) ==
    /\ bpc = "collect"
    /\ p \in running
    /\ running' = running \ {p}
    /\ finished' = DictSet(finished, p, ProcessPaper(papers[p], r, BatchFallback))
    /\ UNCHANGED <<papers, bpc, chunk_start, queued, result_rows,
                   processed_papers, progress_log, aggVars, trendVars, paperVars, fetchVars, pipeVars>>

ProgressUpdateBeforeCount(processed, total_papers) ==
    <<processed - 1, total_papers>>

\* lines 233-235: progress = processed_papers / total_papers is shown, kept
\* as the pair (processed_papers, total_papers)
ProgressUpdate(processed, total_papers) == <<processed, total_papers>>

\* lines 228-239: as_completed yields a completed future; its row is
\* appended and the progress is updated
Collect(p) ==
    /\ bpc = "collect"
    /\ p \in DOMAIN finished
    /\ result_rows' = Append(result_rows, finished[p])
    /\ processed_papers' = processed_papers + 1
    /\ progress_log' = Append(progress_log,
                               ProgressUpdate(processed_papers + 1, Len(papers)))
    /\ finished' = [q \in (DOMAIN finished) \ {p} |-> finished[q]]
    /\ UNCHANGED <<papers, bpc, chunk_start, queued, running,
                   aggVars, trendVars, paperVars, fetchVars, pipeVars>>

\* every future of the chunk was yielded: the executor is shut down and
\* the loop goes on with the next chunk
ChunkDone ==
    /\ bpc = "collect"
    /\ queued = {} /\ running = {} /\ DOMAIN finished = {}
    /\ chunk_start' = chunk_start + BatchSize(Len(papers))
    /\ bpc' = "loop"
    /\ UNCHANGED <<papers, queued, running, finished, result_rows,
                   processed_papers, progress_log, aggVars, trendVars, paperVars, fetchVars, pipeVars>>

\* lines 241-242: return pd.DataFrame(results)
BatchReturn ==
    /\ bpc = "loop"
    /\ chunk_start >= Len(papers)
    /\ bpc' = "done"
    /\ UNCHANGED <<papers, chunk_start, queued, running, finished, result_rows,
                   processed_papers, progress_log, aggVars, trendVars, paperVars, fetchVars, pipeVars>>

NextBatch ==
    \/ BatchStart
    \/ SubmitChunk
    \/ WorkerStart
    \/ \E p \in 1..MaxPapers, r \in AnalyzePaperOutcomes : WorkerFinish(p, r)
    \/ \E p \in 1..MaxPapers : Collect(p)
    \/ ChunkDone
    \/ BatchReturn

SpecBatch == InitBatch /\ [][NextBatch]_vars

(***************************************************************************)
(* C7: for a non-empty list of n papers and every interleaving of the      *)
(* workers, analyze_batch does not raise and returns a table of exactly n  *)
(* rows in which each input paper appears exactly once, every row carrying *)
(* title, published and the confidence and issues column of every category.*)
(***************************************************************************)
C7_OneCompleteRowPerPaper ==
    /\ (Len(papers) > 0 => bpc # "raised")
    /\ bpc = "done" =>
          /\ Len(result_rows) = Len(papers)
          /\ \A i \in 1..Len(papers) :
                Cardinality({j \in 1..Len(result_rows) :
                                /\ result_rows[j].title = papers[i].title
                                /\ result_rows[j].published = papers[i].published}) = 1
          /\ \A j \in 1..Len(result_rows) : KeysOf(result_rows[j]) = RowKeys

\* five papers, collected out of submission order, a fallback row among them
C7_Witness ==
    /\ bpc = "done"
    /\ Len(papers) = 5
    /\ Len(result_rows) = 5
    /\ result_rows[1].title = 2
    /\ result_rows[2].title = 1
    /\ result_rows[1].conf["Methodology"] = 60
    /\ result_rows[2].conf["Statistical Analysis"] = 100

----------------------------------------------------------------------------
(* PaperFetcher.fetch_papers *)

batch_size == 25

initial_retries == 3

\* max_results=min(batch_size, count - len(papers))
MaxResults(n) == Min(batch_size, count - n)

\* the records the client yields for a search that answers with k results:
\* the same query is sent in every pass, so the same leading results come back
BatchPapers(k) == [j \in 1..k |-> PaperRecord(j)]

HandlerReraisesLast(r) == [retries |-> r - 1, raised |-> r - 1 = 0]

\* except Exception: the failure is printed and one retry is used up
Handler(r) == [retries |-> r - 1, raised |-> FALSE]

\* random.sample(papers, n): n positions without repetition, in any order
Samples(s, n) ==
    {[i \in 1..n |-> s[f[i]]] :
        f \in {g \in [1..n -> 1..Len(s)] : \A a, b \in 1..n : a # b => g[a] # g[b]}}

----------------------------------------------------------------------------
(* Specification SpecFetch: one call of fetch_papers against a client that *)
(* answers each search with any number of results up to max_results, or    *)
(* raises.  SpecFetchFair adds that the running call keeps taking steps.   *)

InitFetch ==
    /\ PipeIdle
    /\ AggIdle
    /\ TrendIdle
    /\ PaperIdle
    /\ BatchIdle
    /\ count \in 0..MaxCount
    /\ has_topic \in BOOLEAN
    /\ fpc = "idle"
    /\ fetched = <<>>
    /\ retries_left = 0

\* lines 14-20
FetchStart ==
    /\ fpc = "idle"
    /\ fpc' = "head"
    /\ fetched' = <<>>
    /\ retries_left' = initial_retries
    /\ UNCHANGED <<count, has_topic, aggVars, trendVars, paperVars, batchVars, pipeVars>>

\* line 22, condition true: the search is built and sent
LoopEnter ==
    /\ fpc = "head"
    /\ Len(fetched) < count /\ retries_left > 0
    /\ fpc' = "body"
    /\ UNCHANGED <<count, has_topic, fetched, retries_left,
                   aggVars, trendVars, paperVars, batchVars, pipeVars>>

\* lines 38-59: the client yields k results without failing
ClientAnswers(k) ==
    /\ fpc = "body"
    /\ k \in 0..MaxResults(Len(fetched))
    /\ fetched' = fetched \o BatchPapers(k)
    /\ fpc' = "head"
    /\ UNCHANGED <<count, has_topic, retries_left,
                   aggVars, trendVars, paperVars, batchVars, pipeVars>>

\* lines 61-64: the client raises; the results of this pass are dropped
ClientRaises ==
    /\ fpc = "body"
    /\ retries_left' = Handler(retries_left).retries
    /\ fpc' = IF Handler(retries_left).raised THEN "raised" ELSE "head"
    /\ UNCHANGED <<count, has_topic, fetched,
                   aggVars, trendVars, paperVars, batchVars, pipeVars>>

\* line 22, condition false, and lines 66-72
FetchReturn ==
    /\ fpc = "head"
    /\ ~(Len(fetched) < count /\ retries_left > 0)
    /\ IF Len(fetched) > count
         THEN fetched' \in Samples(fetched, count)
         ELSE UNCHANGED fetched
    /\ fpc' = "done"
    /\ UNCHANGED <<count, has_topic, retries_left,
                   aggVars, trendVars, paperVars, batchVars, pipeVars>>

NextFetch ==
    \/ FetchStart
    \/ LoopEnter
    \/ \E k \in 0..batch_size : ClientAnswers(k)
    \/ ClientRaises
    \/ FetchReturn

SpecFetch == InitFetch /\ [][NextFetch]_vars

\* the thread running fetch_papers is never suspended for ever
SpecFetchFair == SpecFetch /\ WF_vars(NextFetch)

(***************************************************************************)
(* C8: fetch_papers terminates for every requested count, every topic and  *)
(* every behaviour of the search client, including a client that keeps     *)
(* answering successfully with zero results.                               *)
(***************************************************************************)
C8_FetchTerminates == <>(fpc \in {"done", "raised"})

(***************************************************************************)
(* C9: fetch_papers never raises to its caller when a request to the       *)
(* search client fails: the exception is caught and the loop goes on, and  *)
(* the list returned has at most count records, fewer than count when the  *)
(* retries are exhausted.                                                  *)
(***************************************************************************)
C9_NoRaiseAtMostCount ==
    /\ fpc # "raised"
    /\ fpc = "done" =>
          /\ Len(fetched) <= count
          /\ retries_left = 0 => Len(fetched) < count

\* two failed requests, then results, then the failure that uses up the
\* last retry: a shorter list is returned
C9_Witness ==
    /\ fpc = "done"
    /\ retries_left = 0
    /\ count = MaxCount
    /\ Len(fetched) = 2

----------------------------------------------------------------------------
(* Specification SpecReorder: aggregate_patterns is called on a complete   *)
(* table, the rows are handed over again in another order (analyze_batch   *)
(* appends them in completion order), and aggregate_patterns is called on  *)
(* the reordered table.  Every permutation of the rows is reached by       *)
(* repeated exchanges.                                                     *)
ReorderRows   == 5      \* rows of a reordered batch
ReorderMonths == 3      \* calendar months the rows of a reordered batch fall in

\* the table of n papers: paper i is published in month
\* ((i - 1) * step + off) mod ReorderMonths of 2023-11, 2023-12, 2024-01, ...
ReorderTable(n, step, off) ==
    [i \in 1..n |->
        StatsRow(i, (3 * i) % (MaxIssues + 1),
                 MonthStamp(3 + (((i - 1) * step + off) % ReorderMonths),
                            1 + ((9 * i) % 28)))]

InitReorder ==
    /\ keys = RowKeys
    /\ columns = RowKeys
    /\ \E n \in 1..ReorderRows, step \in 0..(ReorderMonths - 1),
          off \in 0..(ReorderMonths - 1) :
          results = ReorderTable(n, step, off)
    /\ columns0 = {}
    /\ results0 = <<>>
    /\ report = NoReport
    /\ error = NoError
    /\ calls = 0
    /\ prev_results = <<>>
    /\ prev_report = NoReport
    /\ TrendIdle
    /\ PaperIdle
    /\ BatchIdle
    /\ FetchIdle
    /\ PipeIdle

\* between the first call and the next one the rows i and j of the table
\* change places
Reorder(i, j) ==
    /\ calls = 1
    /\ i < j
    /\ j <= Len(results)
    /\ results' = [results EXCEPT ![i] = results[j], ![j] = results[i]]
    /\ UNCHANGED <<keys, columns, columns0, results0, report, error, calls,
                   prev_results, prev_report,
                   trendVars, paperVars, batchVars, fetchVars, pipeVars>>

NextReorder ==
    \/ Aggregate
    \/ \E i, j \in 1..ReorderRows : Reorder(i, j)

SpecReorder == InitReorder /\ [][NextReorder]_vars

\* b holds the rows of a, each as often as a does
IsPermutation(a, b) ==
    /\ Len(a) = Len(b)
    /\ \A r \in Range(a) \cup Range(b) :
          Cardinality({i \in 1..Len(a) : a[i] = r})
            = Cardinality({i \in 1..Len(b) : b[i] = r})

\* the last two calls both returned a report and the table of the last
\* call was a permutation of the table of the call before
TwoReportsOfPermutedTables ==
    /\ calls >= 2
    /\ report.kind = "report"
    /\ prev_report.kind = "report"
    /\ IsPermutation(prev_results, results0)

(***************************************************************************)
(* C11: the temporal part of the report (the monthly means and standard    *)
(* deviations of the retained months and the trend_direction label of      *)
(* every category) is the same for a table and for every permutation of    *)
(* its rows.                                                               *)
(***************************************************************************)
C11_TemporalOrderFree ==
    TwoReportsOfPermutedTables =>
        report.temporal_patterns = prev_report.temporal_patterns

\* the months appear in another order in the second table, more than one
\* month is present and some category's monthly means are not stable
C11_Witness ==
    /\ TwoReportsOfPermutedTables
    /\ Len(results0) = ReorderRows
    /\ Cardinality(Range(YearMonth(results0))) = ReorderMonths
    /\ FirstSeen(YearMonth(results0), Len(results0))
         # FirstSeen(YearMonth(prev_results), Len(prev_results))
    /\ \E c \in CategorySet :
          report.temporal_patterns.trend_direction[c] = "increasing"
    /\ \E c \in CategorySet :
          report.temporal_patterns.trend_direction[c] = "decreasing"

(***************************************************************************)
(* C12: the confidence trend label of every category is the same for a     *)
(* table and for every permutation of its rows that keeps the first row    *)
(* first and the last row last; a permutation that moves the first or the  *)
(* last row can change the label although no timestamp changes.            *)
(***************************************************************************)
SameEnds(a, b) ==
    /\ a # <<>>
    /\ Len(a) = Len(b)
    /\ a[1] = b[1]
    /\ a[Len(a)] = b[Len(b)]

C12_TrendReadsEnds ==
    (TwoReportsOfPermutedTables /\ SameEnds(prev_results, results0)) =>
        \A c \in CategorySet :
            report.confidence_trends[c].trend = prev_report.confidence_trends[c].trend

\* the inner rows changed places, the ends did not
C12_Witness ==
    /\ TwoReportsOfPermutedTables
    /\ SameEnds(prev_results, results0)
    /\ Len(results0) = ReorderRows
    /\ \E i \in 2..(Len(results0) - 1) :
          prev_results[i].conf # results0[i].conf
    /\ \E c \in CategorySet :
          report.confidence_trends[c].trend = "decreasing"

\* the first row was moved and a label changed
C12_WitnessEndMoved ==
    /\ TwoReportsOfPermutedTables
    /\ prev_results[1] # results0[1]
    /\ prev_results[Len(prev_results)] = results0[Len(results0)]
    /\ \E c \in CategorySet :
          /\ prev_report.confidence_trends[c].trend = "increasing"
          /\ report.confidence_trends[c].trend = "decreasing"

----------------------------------------------------------------------------
(* Specification SpecCorr: aggregate_patterns on complete tables of        *)
(* 1..CorrRows rows whose issue columns follow given shapes: the first     *)
(* three categories take any shape, the last two a falling and an          *)
(* alternating one.                                                        *)
CorrRows == 5      \* rows of a batch in the correlation specification

Shapes == {"ramp", "double", "down", "flat", "zigzag", "bump", "late"}

\* the i-th of n values of a shape
ShapeValue(shape, i, n) ==
    CASE shape = "ramp"   -> i - 1
      [] shape = "double" -> 2 * (i - 1)
      [] shape = "down"   -> n - i
      [] shape = "flat"   -> 2
      [] shape = "zigzag" -> (i - 1) % 2
      [] shape = "bump"   -> Min(i - 1, n - i)
      [] shape = "late"   -> IF i = n THEN 4 ELSE 0

\* the shapes of the five issue columns
ShapeChoices ==
    {[c \in CategorySet |->
        CASE c = error_categories[1] -> s1
          [] c = error_categories[2] -> s2
          [] c = error_categories[3] -> s3
          [] c = error_categories[4] -> "down"
          [] c = error_categories[5] -> "zigzag"] :
     s1 \in Shapes, s2 \in Shapes, s3 \in Shapes}

CorrTable(n, shape) ==
    [i \in 1..n |->
        [title |-> i,
         published |-> Stamp(2024, 1 + (i % 3), 10 + i),
         conf   |-> [c \in CategorySet |-> Min(100, 60 + 10 * ShapeValue(shape[c], i, n))],
         issues |-> [c \in CategorySet |-> ShapeValue(shape[c], i, n)]]]

InitCorr ==
    /\ keys = RowKeys
    /\ columns = RowKeys
    /\ \E n \in 1..CorrRows, shape \in ShapeChoices : results = CorrTable(n, shape)
    /\ columns0 = {}
    /\ results0 = <<>>
    /\ report = NoReport
    /\ error = NoError
    /\ calls = 0
    /\ prev_results = <<>>
    /\ prev_report = NoReport
    /\ TrendIdle
    /\ PaperIdle
    /\ BatchIdle
    /\ FetchIdle
    /\ PipeIdle

NextCorr == Aggregate

SpecCorr == InitCorr /\ [][NextCorr]_vars

\* sum over the pairs i < j of (a[i] - a[j]) * (b[i] - b[j]): n times the
\* sum of the products of the deviations from the means
RECURSIVE PairSum(_, _, _, _)
PairSum(a, b, i, j) ==
    IF i >= Len(a) THEN 0
    ELSE IF j > Len(a) THEN PairSum(a, b, i + 1, i + 2)
    ELSE (a[i] - a[j]) * (b[i] - b[j]) + PairSum(a, b, i, j + 1)

Codeviation(rows, A, B) ==
    PairSum(IssuesColumn(rows, A), IssuesColumn(rows, B), 1, 2)

\* Pearson's r of the issues columns of A and B is defined
Defined(rows, A, B) ==
    Codeviation(rows, A, A) > 0 /\ Codeviation(rows, B, B) > 0

\* r^2, as the pair <<numerator, denominator>>
RSquared(rows, A, B) ==
    <<Codeviation(rows, A, B) * Codeviation(rows, A, B),
      Codeviation(rows, A, A) * Codeviation(rows, B, B)>>

\* |r| > 0.3
Above03(rows, A, B) ==
    /\ Defined(rows, A, B)
    /\ 100 * RSquared(rows, A, B)[1] > 9 * RSquared(rows, A, B)[2]

\* v hundredths is r rounded to two decimals: v has the sign of r and
\* (2|v| - 1)^2 <= (200 r)^2 <= (2|v| + 1)^2
IsRounded(rows, A, B, v) ==
    LET N   == RSquared(rows, A, B)[1]
        D   == RSquared(rows, A, B)[2]
        q1  == (200 * N) \div D
        r1  == (200 * N) % D
        t   == 200 * q1 + ((200 * r1) \div D)     \* floor of (200 r)^2
        rem == (200 * r1) % D
        lo  == 2 * Abs(v) - 1
        hi  == 2 * Abs(v) + 1
    IN  /\ (v > 0) = (Codeviation(rows, A, B) > 0)
        /\ (v < 0) = (Codeviation(rows, A, B) < 0)
        /\ lo * lo <= t
        /\ t < hi * hi \/ (t = hi * hi /\ rem = 0)

(***************************************************************************)
(* C13: for every ordered pair of distinct categories (A, B), B is a key   *)
(* of A's error_correlations exactly when Pearson's r of the two issues    *)
(* columns is defined and |r| > 0.3, and the value stored is r rounded to  *)
(* two decimals (kept in hundredths); with the columns 0,1,2,3,4 and       *)
(* 0,2,4,6,8 each category has the other with 1.0.                         *)
(***************************************************************************)
C13_CorrelationSet ==
    (calls > 0 /\ report.kind = "report") =>
        \A A \in CategorySet :
            /\ DOMAIN report.error_correlations[A] \subseteq CategorySet \ {A}
            /\ \A B \in CategorySet \ {A} :
                  /\ B \in DOMAIN report.error_correlations[A]
                       <=> Above03(results0, A, B)
                  /\ B \in DOMAIN report.error_correlations[A]
                       => IsRounded(results0, A, B, report.error_correlations[A][B])

\* the example of the claim
C13_Witness ==
    /\ calls > 0
    /\ report.kind = "report"
    /\ IssuesColumn(results0, "Methodology") = <<0, 1, 2, 3, 4>>
    /\ IssuesColumn(results0, "Statistical Analysis") = <<0, 2, 4, 6, 8>>
    /\ report.error_correlations["Methodology"]["Statistical Analysis"] = 100
    /\ report.error_correlations["Statistical Analysis"]["Methodology"] = 100

\* a pair that is left out with a defined r, and a negative value that
\* rounding changed
C13_WitnessBelow ==
    /\ calls > 0
    /\ report.kind = "report"
    /\ \E A \in CategorySet, B \in CategorySet :
          /\ A # B
          /\ Defined(results0, A, B)
          /\ Codeviation(results0, A, B) # 0
          /\ B \notin DOMAIN report.error_correlations[A]
    /\ \E A \in CategorySet, B \in CategorySet :
          /\ A # B
          /\ B \in DOMAIN report.error_correlations[A]
          /\ report.error_correlations[A][B] < 0
          /\ report.error_correlations[A][B] > -100
          /\ 10000 * RSquared(results0, A, B)[1]
               # report.error_correlations[A][B] * report.error_correlations[A][B]
                   * RSquared(results0, A, B)[2]

(***************************************************************************)
(* C14: the correlation sets are symmetric: B is in A's set if and only if *)
(* A is in B's set, and then the two stored values are equal.              *)
(***************************************************************************)
C14_Symmetric ==
    (calls > 0 /\ report.kind = "report") =>
        \A A \in CategorySet, B \in CategorySet :
            A # B =>
                /\ B \in DOMAIN report.error_correlations[A]
                     <=> A \in DOMAIN report.error_correlations[B]
                /\ B \in DOMAIN report.error_correlations[A]
                     => report.error_correlations[A][B] = report.error_correlations[B][A]

C14_Witness ==
    /\ calls > 0
    /\ report.kind = "report"
    /\ Len(results0) = CorrRows
    /\ \E A \in CategorySet, B \in CategorySet :
          /\ A # B
          /\ B \in DOMAIN report.error_correlations[A]
          /\ A \in DOMAIN report.error_correlations[B]
          /\ report.error_correlations[A][B] = report.error_correlations[B][A]
          /\ report.error_correlations[A][B] \notin {100, -100}
    /\ \E A \in CategorySet, B \in CategorySet :
          /\ A # B
          /\ Defined(results0, A, B)
          /\ B \notin DOMAIN report.error_correlations[A]
          /\ A \notin DOMAIN report.error_correlations[B]

(***************************************************************************)
(* C15: when the issues column of a category has no variance (all rows     *)
(* equal, or one row only), a report is returned without error and the     *)
(* category is in no other category's correlation set and has no category  *)
(* in its own.                                                             *)
(***************************************************************************)
ZeroVariance(rows, A) ==
    \A i \in 1..Len(rows) : rows[i].issues[A] = rows[1].issues[A]

C15_ZeroVarianceNoCorrelation ==
    (calls > 0 /\ WellFormed(results0, columns0)) =>
        /\ report.kind = "report"
        /\ error = NoError
        /\ \A A \in CategorySet :
              ZeroVariance(results0, A) =>
                  /\ report.error_correlations[A] = EmptyDict
                  /\ \A B \in CategorySet :
                        A \notin DOMAIN report.error_correlations[B]

\* one column is constant over several rows while two others correlate
C15_Witness ==
    /\ calls > 0
    /\ report.kind = "report"
    /\ error = NoError
    /\ Len(results0) = CorrRows
    /\ ZeroVariance(results0, "Statistical Analysis")
    /\ ~ZeroVariance(results0, "Methodology")
    /\ report.error_correlations["Statistical Analysis"] = EmptyDict
    /\ report.error_correlations["Methodology"] # EmptyDict

C15_WitnessSingleRow ==
    /\ calls > 0
    /\ report.kind = "report"
    /\ Len(results0) = 1
    /\ \A A \in CategorySet : report.error_correlations[A] = EmptyDict

----------------------------------------------------------------------------
(***************************************************************************)
(* C16 (checked under SpecAgg): for a batch of exactly one row the report  *)
(* gives, for every category, a confidence standard deviation that is      *)
(* not-a-number (not zero) and the confidence trend "stable".              *)
(***************************************************************************)
C16_SingleRow ==
    (calls > 0 /\ WellFormed(results0, columns0) /\ Len(results0) = 1) =>
        /\ report.kind = "report"
        /\ \A c \in CategorySet :
              /\ report.confidence_trends[c].std.nan
              /\ report.confidence_trends[c].std # Rat(0, 1)
              /\ report.confidence_trends[c].trend = "stable"

C16_Witness ==
    /\ calls > 0
    /\ Len(results0) = 1
    /\ report.kind = "report"
    /\ report.confidence_trends["Methodology"].mean = Rat(100, 1)
    /\ report.confidence_trends["Methodology"].std = NaN
    /\ report.confidence_trends["Methodology"].trend = "stable"

----------------------------------------------------------------------------
(***************************************************************************)
(* C18 (checked under SpecBatch): the progress is updated exactly once per *)
(* collected paper under every interleaving of the workers: the k-th       *)
(* update shows k of n, the number of updates always equals the number of  *)
(* rows collected and the processed count, no update shows more than n of  *)
(* n, and when analyze_batch returns the last update shows n of n.         *)
(***************************************************************************)
C18_ProgressOncePerPaper ==
    /\ Len(progress_log) = Len(result_rows)
    /\ Len(progress_log) = processed_papers
    /\ \A k \in 1..Len(progress_log) :
          /\ progress_log[k] = <<k, Len(papers)>>
          /\ progress_log[k][1] <= progress_log[k][2]
    /\ (bpc = "done" /\ Len(papers) > 0) =>
          progress_log[Len(progress_log)] = <<Len(papers), Len(papers)>>

\* MaxPapers papers, the first chunk collected out of submission order
C18_Witness ==
    /\ bpc = "done"
    /\ Len(papers) = MaxPapers
    /\ Len(progress_log) = MaxPapers
    /\ progress_log[1] = <<1, MaxPapers>>
    /\ progress_log[MaxPapers] = <<MaxPapers, MaxPapers>>
    /\ result_rows[1].title = 2

\* the second paper is collected while the first is still being analysed
C18_WitnessInterleaved ==
    /\ bpc = "collect"
    /\ running = {1}
    /\ progress_log = <<(<<1, MaxPapers>>)>>
    /\ result_rows[1].title = 2

(***************************************************************************)
(* C20: analyze_batch called with an empty list of papers does not raise   *)
(* and returns a table without rows.                                       *)
(***************************************************************************)
C20_EmptyBatchReturns ==
    Len(papers) = 0 =>
        /\ bpc # "raised"
        /\ bpc = "done" => result_rows = <<>>

\* what happens instead: the call ends in the ValueError of range() before
\* any paper is looked at
C20_EmptyBatchRaises ==
    /\ Len(papers) = 0
    /\ bpc = "raised"
    /\ result_rows = <<>>
    /\ progress_log = <<>>

----------------------------------------------------------------------------
(* The analysis run of main.py (lines 53-290) on the papers the provider   *)
(* returned: analyze_batch, the categories column, aggregate_patterns, the *)
(* chart tabs and the CSV export.  The charts that only read the table     *)
(* (error distribution, correlation heatmap, similarity network, topic     *)
(* distribution) and the copies main.py works on (filtered_results,        *)
(* display_df, the sorted frame of create_timeline_view) leave no trace    *)
(* in analysis_results.                                                    *)
PipelinePapers == 5      \* papers of an analysis run

InitPipeline ==
    /\ AggIdle
    /\ TrendIdle
    /\ PaperIdle
    /\ FetchIdle
    /\ PipeIdle
    /\ \E n \in 0..PipelinePapers : papers = [i \in 1..n |-> PaperRecord(i)]
    /\ bpc = "idle"
    /\ chunk_start = 0
    /\ queued = {}
    /\ running = {}
    /\ finished = EmptyDict
    /\ result_rows = <<>>
    /\ processed_papers = 0
    /\ progress_log = <<>>

\* main.py lines 60-62: analysis_results is the table analyze_batch
\* returned; papers_df['categories'] is assigned to it, which aligns the
\* two on their index (the row number in both)
AttachCategories ==
    /\ bpc = "done"
    /\ ppc = "idle"
    /\ ppc' = "attached"
    /\ keys' = RowKeys
    /\ results' = result_rows
    /\ columns' = RowKeys \cup {"categories"}
    /\ categories_col' = [j \in 1..Len(result_rows) |-> papers[j].categories]
    /\ UNCHANGED <<columns0, results0, report, error, calls, prev_results,
                   prev_report, table_index, csv,
                   trendVars, paperVars, batchVars, fetchVars>>

\* main.py line 99
PipelineAggregate ==
    /\ ppc = "attached"
    /\ calls = 0
    /\ Aggregate

\* main.py lines 115-134; Visualizer.create_confidence_heatmap assigns
\* df['month'] on the frame it is given
ErrorAnalysisTab ==
    /\ ppc = "attached"
    /\ calls = 1
    /\ error = NoError
    /\ ppc' = "error analysis"
    /\ columns' = columns \cup {"month"}
    /\ UNCHANGED <<keys, results, columns0, results0, report, error, calls,
                   prev_results, prev_report, categories_col, table_index, csv,
                   trendVars, paperVars, batchVars, fetchVars>>

\* main.py lines 136-156; Visualizer.create_trend_analysis assigns
\* df['date'] and makes it the index in place (set_index drops the column)
TrendsTab ==
    /\ ppc = "error analysis"
    /\ ppc' = "trends"
    /\ table_index' = "date"
    /\ UNCHANGED <<aggVars, categories_col, csv,
                   trendVars, paperVars, batchVars, fetchVars>>

\* main.py lines 157-280: the categories tab and the detailed table, which
\* is built on the copy display_df.  The url column assigned at line 171
\* comes from papers_df, whose index is the row number; once date is the
\* index of the table the assignment matches no row, the column holds NaN
\* and x.startswith of line 174 fails.  How pandas and the table widget
\* behave lies outside the sources, so both outcomes are kept: the script
\* stops there with an exception, or it goes on to the export.
DetailTable(raises) ==
    /\ ppc = "trends"
    /\ ppc' = IF raises THEN "raised" ELSE "table"
    /\ UNCHANGED <<aggVars, categories_col, table_index, csv,
                   trendVars, paperVars, batchVars, fetchVars>>

\* main.py lines 283-290: analysis_results.to_csv(index=False)
Export ==
    /\ ppc = "table"
    /\ ppc' = "exported"
    /\ csv' = [written |-> TRUE,
               header  |-> columns,
               titles  |-> [j \in 1..Len(results) |-> results[j].title]]
    /\ UNCHANGED <<aggVars, categories_col, table_index,
                   trendVars, paperVars, batchVars, fetchVars>>

NextPipeline ==
    \/ NextBatch
    \/ AttachCategories
    \/ PipelineAggregate
    \/ ErrorAnalysisTab
    \/ TrendsTab
    \/ \E raises \in BOOLEAN : DetailTable(raises)
    \/ Export

SpecPipeline == InitPipeline /\ [][NextPipeline]_vars

\* the table of the run is that of analyze_batch with its rows in the order
\* of collection
PipelineTableIsBatchTable ==
    ppc # "idle" => (results = result_rows /\ Len(categories_col) = Len(results))

C17_CsvAsExported ==
    csv.written =>
        /\ Len(csv.titles) = Len(papers)
        /\ \A i \in 1..Len(papers) :
              Cardinality({j \in 1..Len(csv.titles) : csv.titles[j] = papers[i].title}) = 1
        /\ csv.header = RowKeys \cup {"categories", "year_month", "month"}

C17_Exported ==
    /\ csv.written
    /\ Len(csv.titles) = PipelinePapers
    /\ "year_month" \in csv.header

(***************************************************************************)
(* C19: once the categories are attached to the analysis table, the        *)
(* categories of every row are those of the paper whose title the row      *)
(* holds, whatever the order in which the workers completed.               *)
(***************************************************************************)
C19_CategoriesOfTitle ==
    ppc # "idle" =>
        \A j \in 1..Len(results) : \A i \in 1..Len(papers) :
            papers[i].title = results[j].title =>
                categories_col[j] = papers[i].categories

\* what holds instead: row j carries the categories of the j-th paper
\* fetched, and these are the row's own only when the row was collected in
\* submission order
C19_CategoriesByPosition ==
    ppc # "idle" =>
        \A j \in 1..Len(results) : categories_col[j] = papers[j].categories

C19_Mismatch ==
    /\ ppc = "attached"
    /\ Len(results) = PipelinePapers
    /\ results[1].title = 2
    /\ categories_col[1] = papers[1].categories
    /\ categories_col[1] # papers[2].categories

----------------------------------------------------------------------------
(* Specification SpecChunks: analyze_batch on 1..ChunkPapers papers, taken *)
(* up at the head of the chunk loop when all chunks but the last two have  *)
(* been analysed and collected in submission order (for at most two chunks *)
(* that is the state right after the set-up of lines 190-200); from there  *)
(* every interleaving of the worker threads and of the collecting loop.    *)
(* With 17 papers and more a chunk is larger than the pool of 4 workers.   *)
ChunkPapers == 17      \* papers handed to analyze_batch in SpecChunks

\* analyze_paper found no usable answer: the fallback mapping
FallbackOutcome == OuterHandler(Raises("Exception"), BatchFallback)

\* the value of i when all chunks but the last two are done
StartOfLastTwo(total_papers) ==
    LET size   == BatchSize(total_papers)
        chunks == CeilDiv(total_papers, size)
    IN  Max(0, (chunks - 2) * size)

InitChunks ==
    /\ AggIdle
    /\ TrendIdle
    /\ PaperIdle
    /\ FetchIdle
    /\ PipeIdle
    /\ \E n \in 1..ChunkPapers :
          /\ papers = [i \in 1..n |-> PaperRecord(i)]
          /\ chunk_start = StartOfLastTwo(n)
          /\ result_rows = [p \in 1..StartOfLastTwo(n) |->
                              ProcessPaper(PaperRecord(p), FallbackOutcome, BatchFallback)]
          /\ processed_papers = StartOfLastTwo(n)
          /\ progress_log = [k \in 1..StartOfLastTwo(n) |-> ProgressUpdate(k, n)]
    /\ bpc = "loop"
    /\ queued = {}
    /\ running = {}
    /\ finished = EmptyDict

NextChunks ==
    \/ SubmitChunk
    \/ WorkerStart
    \/ \E p \in 1..ChunkPapers : WorkerFinish(p, FallbackOutcome)
    \/ \E p \in 1..ChunkPapers : Collect(p)
    \/ ChunkDone
    \/ BatchReturn

SpecChunks == InitChunks /\ [][NextChunks]_vars

\* min(10, ceil(n / 4))
ExpectedChunkSize(n) == IF (n + 3) \div 4 < 10 THEN (n + 3) \div 4 ELSE 10

\* the chunk (0, 1, ...) the p-th paper of n belongs to
ChunkOf(p, n) == (p - 1) \div ExpectedChunkSize(n)

\* the papers whose rows have been collected
Collected == {result_rows[j].title : j \in 1..Len(result_rows)}

(***************************************************************************)
(* C21: the papers are processed in consecutive chunks of                  *)
(* min(10, ceil(n/4)) papers with a barrier between chunks: the papers     *)
(* submitted, under analysis or completed but not yet collected all belong *)
(* to one chunk, together with the rows already collected of that chunk    *)
(* they are the whole chunk, at most min(4, n) papers are under analysis   *)
(* at a time, every paper of an earlier chunk has been collected before    *)
(* any paper of the chunk is taken up, and in the list of rows the rows of *)
(* a chunk precede the rows of every later chunk.                          *)
(***************************************************************************)
C21_ChunkBarrier ==
    LET n      == Len(papers)
        active == queued \cup running \cup DOMAIN finished
    IN  /\ Cardinality(running) <= (IF n < 4 THEN n ELSE 4)
        /\ \A p \in active, q \in active : ChunkOf(p, n) = ChunkOf(q, n)
        /\ \A p \in active :
              /\ p \notin Collected
              /\ \A q \in 1..n :
                    /\ ChunkOf(q, n) < ChunkOf(p, n) => q \in Collected
                    /\ ChunkOf(q, n) > ChunkOf(p, n) => q \notin Collected
                    /\ ChunkOf(q, n) = ChunkOf(p, n) => q \in active \cup Collected
        /\ \A i \in 1..Len(result_rows), j \in 1..Len(result_rows) :
              i < j => ChunkOf(result_rows[i].title, n) <= ChunkOf(result_rows[j].title, n)
        /\ bpc = "done" => Collected = 1..n

\* 17 papers in chunks of 5: four papers of the third chunk are under
\* analysis and the fifth waits for a free worker
C21_Witness ==
    /\ Len(papers) = 17
    /\ running = {11, 12, 13, 14}
    /\ queued = {15}
    /\ Collected = 1..10

\* the returned table: the third chunk collected in reverse, then the last
C21_WitnessReturned ==
    /\ bpc = "done"
    /\ Len(papers) = 17
    /\ [j \in 11..17 |-> result_rows[j].title] = [j \in 11..17 |->
           CASE j <= 15 -> 26 - j [] j = 16 -> 17 [] OTHER -> 16]

----------------------------------------------------------------------------
(* The retry schedule of analyze_paper, checked under SpecPaper *)

RECURSIVE Pow2(_)
Pow2(k) == IF k = 0 THEN 1 ELSE 2 * Pow2(k - 1)

\* at most 5 requests; the first is sent at once and the k-th after a wait
\* of exactly 2^(k-1) seconds, which stays below the cap of 32
WaitsDouble ==
    /\ sent <= 5
    /\ Len(slept) = (IF sent = 0 THEN 0 ELSE sent - 1)
    /\ \A k \in 2..sent : slept[k - 1] = Pow2(k - 1) /\ slept[k - 1] <= 32

(***************************************************************************)
(* C22 as stated: at most 5 requests are sent, the k-th request (k = 2..5) *)
(* follows a wait of exactly 2^(k-1) seconds whichever failure ended the   *)
(* attempt before, and no request is sent after a request that was         *)
(* answered with a success status (not 429, not an error status), whatever *)
(* the body of that answer.                                                *)
(***************************************************************************)
C22_NoRequestAfterSuccessStatus ==
    /\ []WaitsDouble
    /\ [][(last_status \in {"ok", "not_json"}) => (sent' = sent)]_vars

(***************************************************************************)
(* C22 amended: the schedule of waits is as stated, and no request is sent *)
(* after an answer with a success status whose body is JSON; an answer     *)
(* with a success status whose body is not JSON is retried like a request  *)
(* error where response.json() raises a RequestException, and ends the     *)
(* call without a further request where it raises a plain ValueError.      *)
(***************************************************************************)
C22_RetrySchedule ==
    /\ []WaitsDouble
    /\ [](last_status = "ok" => apc = "done")
    /\ []((last_status = "not_json" /\ ~json_compat) => apc = "done")
    /\ [][(last_status = "ok" \/ (last_status = "not_json" /\ ~json_compat))
            => (sent' = sent)]_vars
    /\ [][(sent' # sent /\ sent > 0)
            => (/\ sent' = sent + 1
                /\ last_status \in {"429", "timeout", "error", "not_json"}
                /\ slept' = Append(slept, Pow2(sent)))]_vars

\* the fifth request is sent after waits of 2, 4, 8 and 16 seconds and is
\* answered
C22_Witness ==
    /\ apc = "done"
    /\ sent = 5
    /\ slept = <<2, 4, 8, 16>>
    /\ last_status = "ok"
    /\ outcome.exc = "none"

\* a request follows an answer with a success status and a body that is
\* not JSON
C22_WitnessRetriedBody ==
    /\ apc = "loop"
    /\ json_compat
    /\ last_status = "not_json"
    /\ sent = 2
    /\ slept = <<2>>

----------------------------------------------------------------------------
(* Specification SpecLongBatch: the trend of a confidence column of up to  *)
(* MaxBatch rows.  _calculate_trend (line 264) reads the column's length   *)
(* and its first and last value; the column is drawn with end values in    *)
(* 0..100 and the rows between them filled with a constant.                *)
MaxBatch == 1001

\* 'confidence': min(100, max(0, ...)) and random.randint(60, 100)
ConfidenceValues == 0..100

\* short batches take every pair of end values; longer ones take the pairs
\* with an end at 0 or 100, which give every difference in -100..100
ShortBatch == 12

\* short batches, the lengths 10 * d at which a difference d of 10, 50 and
\* 100 is a tie, and the longest batch
BatchLengths == (1..ShortBatch) \cup {100, 500, 1000, MaxBatch}

\* results[confidence_col] of a batch of n rows
ConfidenceSeries(n, first, last, fill) ==
    [i \in 1..n |-> IF i = n THEN last ELSE IF i = 1 THEN first ELSE fill]

InitLongBatch ==
    /\ AggIdle
    /\ PaperIdle
    /\ BatchIdle
    /\ FetchIdle
    /\ PipeIdle
    /\ label = NoLabel
    /\ \E n \in BatchLengths, first \in ConfidenceValues,
          last \in ConfidenceValues :
          /\ n > ShortBatch => (first \in {0, 100} \/ last \in {0, 100})
          /\ series = ConfidenceSeries(n, first, last, 50)

NextLongBatch == TrendCall

SpecLongBatch == InitLongBatch /\ [][NextLongBatch]_vars

(***************************************************************************)
(* C23: with confidence values in 0..100, the confidence trend label of a  *)
(* batch of n >= 2 rows is not "stable" exactly when                       *)
(* 10 * |last - first| >= n; so every batch of more than 1000 rows is      *)
(* labelled "stable", whatever its values.                                 *)
(***************************************************************************)
C23_StableBeyondThousand ==
    (label # NoLabel /\ Len(series) >= 2) =>
        LET n == Len(series)
            d == series[n] - series[1]
        IN  /\ \A i \in 1..n : series[i] \in ConfidenceValues
            /\ (label # "stable") <=> (10 * Abs(d) >= n)
            /\ n > 1000 => label = "stable"
            /\ label = "increasing" => d > 0
            /\ label = "decreasing" => d < 0

\* a batch of exactly 1000 rows that rises from 0 to 100 is "increasing"
C23_Witness ==
    /\ Len(series) = 1000
    /\ series[1] = 0
    /\ series[1000] = 100
    /\ label = "increasing"

\* a batch of exactly 1000 rows that falls from 100 to 0 is "decreasing"
C23_WitnessDecreasing ==
    /\ Len(series) = 1000
    /\ series[1] = 100
    /\ series[1000] = 0
    /\ label = "decreasing"

\* the same rise over 1001 rows is "stable"
C23_WitnessStable ==
    /\ Len(series) = 1001
    /\ series[1] = 0
    /\ series[1001] = 100
    /\ label = "stable"

====
